---- MODULE Spec2Model ----
(***************************************************************************)
(* Model of NeutronDetectorNetwork (src/src/neutron_detector.py): the two  *)
(* SQLite tables `detectors` and `readings`, and one action per public     *)
(* method.                                                                 *)
(*                                                                         *)
(* Numbers.  Python floats are modelled as exact rationals:                *)
(*   - cps and alert_threshold are integers;                                *)
(*   - baseline_cps is a reduced fraction <<n, d>> with d > 0 (it is the    *)
(*     quotient sum/len computed by calibrate);                            *)
(*   - dose_usv_h is held in units of 1e-4 uSv/h, so that the factors of    *)
(*     CPS_TO_DOSE (0.0064, ...) are the integers 64, ...;                  *)
(*   - the multiplier of anomaly_scan, rounded to 2 decimals, is held in   *)
(*     hundredths.                                                         *)
(*                                                                         *)
(* Time.  The wall clock is a pair [h, us]: h stands for the fixed-width,  *)
(* zero-padded part "YYYY-MM-DDTHH:MM:SS" of an ISO timestamp, counted in  *)
(* hours, and us for the microsecond field.  datetime.isoformat() omits    *)
(* the fraction when the microsecond field is 0, and SQLite compares the   *)
(* resulting TEXT values byte by byte; isoformat and StrLess model both.    *)
(***************************************************************************)
EXTENDS Integers, Sequences, FiniteSets, TLC

VARIABLES
    detectors,  \* the rows of table detectors, in rowid order
    readings,   \* the rows of table readings, in rowid (AUTOINCREMENT) order
    clock,      \* what datetime.now() returns
    ret,        \* the last call: method, arguments, exception raised, value returned
    calls       \* the number of method calls made so far

vars == <<detectors, readings, clock, ret, calls>>

\* ------------------------------------------------------------------ bounds
\* A session makes at most MaxCalls method calls; the clock stops at MaxHours.
MaxCalls == 4
MaxHours == 24

\* Identifiers that str(uuid.uuid4())[:8] may produce.
IDs == {"d1", "d2"}

\* Calls of register_detector: <<the identifier uuid4 produces, name, location,
\* detector_type>>. The five types of CPS_TO_DOSE, a type outside it, and an
\* empty name, location and type all occur.
RegisterCalls ==
    { <<"d1", "alpha", "lab", "he3_tube">>,
      <<"d1", "alpha", "lab", "boron_lined">>,
      <<"d1", "alpha", "lab", "scintillator">>,
      <<"d1", "alpha", "lab", "fission_chamber">>,
      <<"d1", "alpha", "lab", "activation_foil">>,
      <<"d1", "alpha", "lab", "geiger">>,
      <<"d1", "alpha", "lab", "">>,
      <<"d1", "", "lab", "he3_tube">>,
      <<"d1", "alpha", "", "he3_tube">>,
      <<"d2", "beta", "yard", "scintillator">> }

\* cps arguments of record_reading, alert_cps arguments of set_threshold and
\* hours arguments of get_dose and get_spectrum.
CpsValues == {-3, 9}
ThresholdValues == {-5, 9}
HoursValues == {24}

\* ------------------------------------------------------------- arithmetic
Abs(x) == IF x < 0 THEN -x ELSE x

RECURSIVE GCD(_, _)
GCD(a, b) == IF b = 0 THEN a ELSE GCD(b, a % b)

\* The fraction n/d (d # 0) in lowest terms with a positive denominator.
Frac(n, d) ==
    LET g == GCD(Abs(n), Abs(d))
        s == IF d < 0 THEN -1 ELSE 1
    IN  <<(s * n) \div g, (s * d) \div g>>

\* round(n / d) to the nearest integer, ties to even, for d > 0.
RoundDiv(n, d) ==
    LET q == n \div d
        r == n - q * d
    IN  IF 2 * r < d THEN q
        ELSE IF 2 * r > d THEN q + 1
        ELSE IF q % 2 = 0 THEN q ELSE q + 1

RECURSIVE SumSeq(_)
SumSeq(s) == IF s = <<>> THEN 0 ELSE Head(s) + SumSeq(Tail(s))

\* ------------------------------------------------------------------- time
\* datetime.isoformat(): the fraction is printed only when it is not zero.
isoformat(t) == IF t.us = 0 THEN <<t.h>> ELSE <<t.h, t.us>>

\* t - timedelta(hours=hours)
MinusHours(t, hours) == [h |-> t.h - hours, us |-> t.us]

\* Lexicographic order of two TEXT values (a proper prefix sorts first).
StrLess(a, b) ==
    \E i \in 1..Len(b) :
        /\ i <= Len(a) + 1
        /\ \A j \in 1..(i - 1) : a[j] = b[j]
        /\ (i = Len(a) + 1 \/ a[i] < b[i])

\* ------------------------------------------------------ constant tables
\* CPS_TO_DOSE, in units of 1e-4.
CPS_TO_DOSE ==
    [ he3_tube |-> 64, boron_lined |-> 42, scintillator |-> 55,
      fission_chamber |-> 75, activation_foil |-> 45 ]

\* A lookup whose default is the he3_tube factor instead of 0.005.
ConversionFactorWrongDefault(detector_type) ==
    IF detector_type \in DOMAIN CPS_TO_DOSE THEN CPS_TO_DOSE[detector_type] ELSE 64

\* self.CPS_TO_DOSE.get(detector_type, 0.005)
ConversionFactor(detector_type) ==
    IF detector_type \in DOMAIN CPS_TO_DOSE THEN CPS_TO_DOSE[detector_type] ELSE 50

\* ---------------------------------------------------------------- queries
DetectorIds == { detectors[i].id : i \in 1..Len(detectors) }

\* SELECT ... FROM detectors WHERE id = ? (the primary key: at most one row)
DetectorIndex(detector_id) ==
    CHOOSE i \in 1..Len(detectors) : detectors[i].id = detector_id

\* Row numbers of the readings of one detector.
RowsOf(detector_id) ==
    { i \in 1..Len(readings) : readings[i].detector_id = detector_id }

\* The query without its `AND timestamp >= ?`.
RowsSinceAnyTime(detector_id, since) == RowsOf(detector_id)

\* WHERE detector_id = ? AND timestamp >= ?
RowsSince(detector_id, since) ==
    { i \in RowsOf(detector_id) : ~StrLess(readings[i].timestamp, since) }

\* The query with ORDER BY timestamp ASC.
EarliestRows(detector_id) ==
    { i \in RowsOf(detector_id) :
        \A j \in RowsOf(detector_id) :
            ~StrLess(readings[j].timestamp, readings[i].timestamp) }

\* ORDER BY timestamp DESC LIMIT 1: the rows SQLite may return. Rows with equal
\* timestamps come in an order SQL leaves open.
LatestRows(detector_id) ==
    { i \in RowsOf(detector_id) :
        \A j \in RowsOf(detector_id) :
            ~StrLess(readings[i].timestamp, readings[j].timestamp) }

\* ORDER BY timestamp: the orders in which the rows of S may come back.
OrderedByTimestamp(S) ==
    { p \in [1..Cardinality(S) -> S] :
        /\ \A k, l \in 1..Cardinality(S) : k # l => p[k] # p[l]
        /\ \A k, l \in 1..Cardinality(S) :
             k < l => ~StrLess(readings[p[l]].timestamp, readings[p[k]].timestamp) }

\* ------------------------------------------------------------------- Init
Init ==
    /\ detectors = <<>>
    /\ readings = <<>>
    /\ clock = [h |-> 0, us |-> 0]
    /\ calls = 0
    /\ ret = [op |-> "init", args |-> <<>>, raised |-> "none", value |-> <<>>]

Return(op, args, value) ==
    [op |-> op, args |-> args, raised |-> "none", value |-> value]

Raise(op, args, exc) ==
    [op |-> op, args |-> args, raised |-> exc, value |-> <<>>]

\* One more method call of the session.
Called == calls < MaxCalls /\ calls' = calls + 1

\* ------------------------------------------------------------ wall clock
\* Time passes between two reads of datetime.now().
AdvanceMicro ==
    /\ clock.us = 0
    /\ clock' = [clock EXCEPT !.us = 1]
    /\ UNCHANGED <<detectors, readings, ret, calls>>

AdvanceHours ==
    /\ clock.h + 24 <= MaxHours
    /\ \E us \in {0, 1} : clock' = [h |-> clock.h + 24, us |-> us]
    /\ UNCHANGED <<detectors, readings, ret, calls>>

\* ------------------------------------------------------ register_detector
NewDetector(detector_id, name, location, detector_type, sensitivity, now) ==
    [ id |-> detector_id, name |-> name, location |-> location,
      type |-> detector_type, sensitivity |-> sensitivity,
      baseline_cps |-> <<0, 1>>, status |-> "online",
      last_calibration |-> isoformat(now), alert_threshold |-> 100 ]

register_detector(detector_id, name, location, detector_type) ==
    LET args == <<name, location, detector_type, 1>>
    IN  IF detector_id \in DetectorIds
        THEN \* INSERT violates the PRIMARY KEY of detectors
             /\ ret' = Raise("register_detector", args, "IntegrityError")
             /\ UNCHANGED <<detectors, readings, clock>>
        ELSE /\ detectors' = Append(detectors,
                   NewDetector(detector_id, name, location, detector_type, 1, clock))
             /\ ret' = Return("register_detector", args, detector_id)
             /\ UNCHANGED <<readings, clock>>

RegisterDetector ==
    /\ Called
    /\ \E call \in RegisterCalls :
        register_detector(call[1], call[2], call[3], call[4])

\* --------------------------------------------------------- record_reading
\* alert_triggered = cps > threshold
AlertTriggered(cps, threshold) == cps > threshold

\* dose_usv_h = cps * conversion_factor
DoseOf(cps, detector_type) == cps * ConversionFactor(detector_type)

\* record_reading without the `if not detector_row` check, falling back to the
\* default factor and the default threshold.
record_reading_unchecked(detector_id, cps) ==
    LET known == detector_id \in DetectorIds
        reading ==
            [ detector_id |-> detector_id,
              cps |-> cps,
              dose_usv_h |->
                  IF known THEN DoseOf(cps, detectors[DetectorIndex(detector_id)].type)
                  ELSE cps * 50,
              timestamp |-> isoformat(clock),
              alert_triggered |->
                  IF known
                  THEN AlertTriggered(cps, detectors[DetectorIndex(detector_id)].alert_threshold)
                  ELSE AlertTriggered(cps, 100) ]
    IN  /\ readings' = Append(readings, reading)
        /\ ret' = Return("record_reading", <<detector_id, cps>>, reading)
        /\ UNCHANGED <<detectors, clock>>

record_reading(detector_id, cps) ==
    IF detector_id \notin DetectorIds
    THEN \* fetchone() is None
         /\ ret' = Raise("record_reading", <<detector_id, cps>>, "ValueError")
         /\ UNCHANGED <<detectors, readings, clock>>
    ELSE LET detector_row == detectors[DetectorIndex(detector_id)]
             reading ==
                 [ detector_id |-> detector_id,
                   cps |-> cps,
                   dose_usv_h |-> DoseOf(cps, detector_row.type),
                   timestamp |-> isoformat(clock),
                   alert_triggered |-> AlertTriggered(cps, detector_row.alert_threshold) ]
         IN  /\ readings' = Append(readings, reading)
             /\ ret' = Return("record_reading", <<detector_id, cps>>, reading)
             /\ UNCHANGED <<detectors, clock>>

RecordReading ==
    /\ Called
    /\ \E detector_id \in IDs, cps \in CpsValues : record_reading(detector_id, cps)

\* --------------------------------------------------------------- get_dose
\* SELECT SUM(dose_usv_h): NULL (None) when no row matches.
RECURSIVE SumDose(_)
SumDose(S) ==
    IF S = {} THEN 0
    ELSE LET i == CHOOSE x \in S : TRUE
         IN  readings[i].dose_usv_h + SumDose(S \ {i})

get_dose(detector_id, hours) ==
    LET since == isoformat(MinusHours(clock, hours))
        result == SumDose(RowsSince(detector_id, since))
    IN  \* `result if result else 0.0`: None and 0.0 both give 0.0
        /\ ret' = Return("get_dose", <<detector_id, hours>>, result)
        /\ UNCHANGED <<detectors, readings, clock>>

GetDose ==
    /\ Called
    /\ \E detector_id \in IDs, hours \in HoursValues : get_dose(detector_id, hours)

\* ---------------------------------------------------------- set_threshold
\* set_threshold that also re-evaluates the alert flag of the detector's
\* stored readings against the new threshold.
set_threshold_retroactive(detector_id, alert_cps) ==
    /\ detectors' =
          [ i \in 1..Len(detectors) |->
              IF detectors[i].id = detector_id
              THEN [detectors[i] EXCEPT !.alert_threshold = alert_cps]
              ELSE detectors[i] ]
    /\ readings' =
          [ i \in 1..Len(readings) |->
              IF readings[i].detector_id = detector_id
              THEN [readings[i] EXCEPT
                      !.alert_triggered = AlertTriggered(readings[i].cps, alert_cps)]
              ELSE readings[i] ]
    /\ ret' = Return("set_threshold", <<detector_id, alert_cps>>, TRUE)
    /\ UNCHANGED clock

\* UPDATE detectors SET alert_threshold = ? WHERE id = ?
set_threshold(detector_id, alert_cps) ==
    /\ detectors' =
          [ i \in 1..Len(detectors) |->
              IF detectors[i].id = detector_id
              THEN [detectors[i] EXCEPT !.alert_threshold = alert_cps]
              ELSE detectors[i] ]
    /\ ret' = Return("set_threshold", <<detector_id, alert_cps>>, TRUE)
    /\ UNCHANGED <<readings, clock>>

SetThreshold ==
    /\ Called
    /\ \E detector_id \in IDs, alert_cps \in ThresholdValues :
        set_threshold(detector_id, alert_cps)

\* ------------------------------------------- fleet_status and anomaly_scan
\* Detectors that have at least one reading.
WithReadings == { id \in DetectorIds : RowsOf(id) # {} }

\* One "latest reading" per detector, as the LIMIT 1 queries may return them.
LatestPicks ==
    { f \in [WithReadings -> 1..Len(readings)] :
        \A id \in WithReadings : f[id] \in LatestRows(id) }

StatusRecord(d, r) ==
    [ id |-> d.id, name |-> d.name, location |-> d.location, type |-> d.type,
      status |-> d.status, cps |-> r.cps, dose_usv_h |-> r.dose_usv_h,
      timestamp |-> r.timestamp ]

RECURSIVE StatusList(_, _)
StatusList(i, pick) ==
    IF i > Len(detectors) THEN <<>>
    ELSE LET d == detectors[i]
         IN  (IF d.id \in WithReadings
              THEN <<StatusRecord(d, readings[pick[d.id]])>>
              ELSE <<>>) \o StatusList(i + 1, pick)

FleetStatus ==
    /\ Called
    /\ \E pick \in LatestPicks :
        /\ ret' = Return("fleet_status", <<>>, StatusList(1, pick))
        /\ UNCHANGED <<detectors, readings, clock>>

\* cps > baseline * 3
ExceedsBaseline(cps, baseline) == cps * baseline[2] > 3 * baseline[1]

\* round(cps / baseline, 2), in hundredths; baseline # 0
Multiplier(cps, baseline) ==
    IF baseline[1] > 0
    THEN RoundDiv(100 * cps * baseline[2], baseline[1])
    ELSE RoundDiv(-100 * cps * baseline[2], -baseline[1])

\* Detectors whose division cps / baseline raises ZeroDivisionError.
DividesByZero(pick) ==
    { id \in WithReadings :
        LET d == detectors[DetectorIndex(id)]
        IN  /\ ExceedsBaseline(readings[pick[id]].cps, d.baseline_cps)
            /\ d.baseline_cps[1] = 0 }

AnomalyRecord(d, r) ==
    [ detector_id |-> d.id, baseline_cps |-> d.baseline_cps, current_cps |-> r.cps,
      multiplier |-> Multiplier(r.cps, d.baseline_cps), timestamp |-> r.timestamp ]

RECURSIVE AnomalyList(_, _)
AnomalyList(i, pick) ==
    IF i > Len(detectors) THEN <<>>
    ELSE LET d == detectors[i]
         IN  (IF /\ d.id \in WithReadings
                 /\ ExceedsBaseline(readings[pick[d.id]].cps, d.baseline_cps)
              THEN <<AnomalyRecord(d, readings[pick[d.id]])>>
              ELSE <<>>) \o AnomalyList(i + 1, pick)

anomaly_scan(pick) ==
    IF DividesByZero(pick) # {}
    THEN Raise("anomaly_scan", <<>>, "ZeroDivisionError")
    ELSE Return("anomaly_scan", <<>>, AnomalyList(1, pick))

AnomalyScan ==
    /\ Called
    /\ \E pick \in LatestPicks :
        /\ ret' = anomaly_scan(pick)
        /\ UNCHANGED <<detectors, readings, clock>>

\* ------------------------------------------------ get_spectrum, calibrate
\* The query without its `detector_id = ?`: the readings of every detector.
get_spectrum_any_detector(detector_id, hours, now) ==
    LET since == isoformat(MinusHours(now, hours))
        S == { i \in 1..Len(readings) : ~StrLess(readings[i].timestamp, since) }
    IN  { [k \in 1..Cardinality(S) |-> <<readings[p[k]].timestamp, readings[p[k]].cps>>] :
            p \in OrderedByTimestamp(S) }

\* The (timestamp, cps) lists that get_spectrum(detector_id, hours) may return
\* when datetime.now() is `now`.
get_spectrum(detector_id, hours, now) ==
    LET since == isoformat(MinusHours(now, hours))
        S == RowsSince(detector_id, since)
    IN  { [k \in 1..Cardinality(S) |-> <<readings[p[k]].timestamp, readings[p[k]].cps>>] :
            p \in OrderedByTimestamp(S) }

GetSpectrum ==
    /\ Called
    /\ \E detector_id \in IDs, hours \in HoursValues :
        \E spectrum \in get_spectrum(detector_id, hours, clock) :
            /\ ret' = Return("get_spectrum", <<detector_id, hours>>, spectrum)
            /\ UNCHANGED <<detectors, readings, clock>>

\* sum(reading[1] for reading in spectrum) / len(spectrum)
AvgCps(spectrum) ==
    Frac(SumSeq([k \in 1..Len(spectrum) |-> spectrum[k][2]]), Len(spectrum))

\* The values a later datetime.now() of the same call may give.
LaterNow ==
    {clock} \cup (IF clock.us = 0 THEN {[clock EXCEPT !.us = 1]} ELSE {})

\* The UPDATE of calibrate also resetting alert_threshold to its default.
UpdateBaselineResetThreshold(detector_id, avg_cps, now) ==
    [ i \in 1..Len(detectors) |->
        IF detectors[i].id = detector_id
        THEN [detectors[i] EXCEPT !.baseline_cps = avg_cps,
                                  !.last_calibration = isoformat(now),
                                  !.alert_threshold = 100]
        ELSE detectors[i] ]

\* UPDATE detectors SET baseline_cps = ?, last_calibration = ? WHERE id = ?
UpdateBaseline(detector_id, avg_cps, now) ==
    [ i \in 1..Len(detectors) |->
        IF detectors[i].id = detector_id
        THEN [detectors[i] EXCEPT !.baseline_cps = avg_cps,
                                  !.last_calibration = isoformat(now)]
        ELSE detectors[i] ]

calibrate(detector_id) ==
    \E spectrum \in get_spectrum(detector_id, 24, clock) :
        IF spectrum = <<>>
        THEN /\ ret' = Return("calibrate", <<detector_id>>, <<0, 1>>)
             /\ UNCHANGED <<detectors, readings, clock>>
        ELSE \E now \in LaterNow :
                /\ detectors' = UpdateBaseline(detector_id, AvgCps(spectrum), now)
                /\ clock' = now
                /\ ret' = Return("calibrate", <<detector_id>>, AvgCps(spectrum))
                /\ UNCHANGED readings

Calibrate == Called /\ \E detector_id \in IDs : calibrate(detector_id)

\* ------------------------------------------------------------- export_ndf
\* The rows written to output_path (a path whose directory can be created):
\* the detector's header values and the readings ORDER BY timestamp.
export_ndf(detector_id) ==
    IF detector_id \notin DetectorIds
    THEN /\ ret' = Return("export_ndf", <<detector_id>>,
                          [success |-> FALSE, header |-> <<>>, rows |-> <<>>])
         /\ UNCHANGED <<detectors, readings, clock>>
    ELSE LET d == detectors[DetectorIndex(detector_id)]
             S == RowsOf(detector_id)
         IN  \E p \in OrderedByTimestamp(S) :
                /\ ret' = Return("export_ndf", <<detector_id>>,
                      [ success |-> TRUE,
                        header |-> <<d.name, d.location, d.type, d.baseline_cps>>,
                        rows |-> [k \in 1..Cardinality(S) |->
                                    <<readings[p[k]].timestamp, readings[p[k]].cps,
                                      readings[p[k]].dose_usv_h>>] ])
                /\ UNCHANGED <<detectors, readings, clock>>

ExportNdf == Called /\ \E detector_id \in IDs : export_ndf(detector_id)

\* ------------------------------------------------------------------- Next
Next ==
    \/ AdvanceMicro
    \/ AdvanceHours
    \/ RegisterDetector
    \/ RecordReading
    \/ GetDose
    \/ SetThreshold
    \/ FleetStatus
    \/ AnomalyScan
    \/ GetSpectrum
    \/ Calibrate
    \/ ExportNdf

Spec == Init /\ [][Next]_vars

\* =================================================================== claims
\* Vocabulary of the properties.  Time is compared here as time (hours, then
\* microseconds), not as text.
IsCall(op) == calls' = calls + 1 /\ ret'.op = op

IdsOf(ds) == { ds[i].id : i \in 1..Len(ds) }

fromisoformat(ts) == [h |-> ts[1], us |-> IF Len(ts) = 2 THEN ts[2] ELSE 0]

NotEarlier(t, s) == t.h > s.h \/ (t.h = s.h /\ t.us >= s.us)

\* The readings of a detector taken in the 24 hours before the clock's time.
Trailing24h(detector_id) ==
    { i \in 1..Len(readings) :
        /\ readings[i].detector_id = detector_id
        /\ NotEarlier(fromisoformat(readings[i].timestamp),
                      [h |-> clock.h - 24, us |-> clock.us]) }

\* The readings of a detector that no other reading of it is later than.
MostRecent(detector_id) ==
    { i \in RowsOf(detector_id) :
        \A j \in RowsOf(detector_id) :
            NotEarlier(fromisoformat(readings[i].timestamp),
                       fromisoformat(readings[j].timestamp)) }

RECURSIVE SumCps(_)
SumCps(S) ==
    IF S = {} THEN 0
    ELSE LET i == CHOOSE x \in S : TRUE IN readings[i].cps + SumCps(S \ {i})

\* The fraction m is the arithmetic mean of the cps of the readings S.
IsMeanOf(m, S) == m[2] > 0 /\ m[1] * Cardinality(S) = m[2] * SumCps(S)

\* The conversion table of the specification, in units of 1e-4.
SpecFactor(detector_type) ==
    CASE detector_type = "he3_tube" -> 64
      [] detector_type = "boron_lined" -> 42
      [] detector_type = "scintillator" -> 55
      [] detector_type = "fission_chamber" -> 75
      [] detector_type = "activation_foil" -> 45
      [] OTHER -> 50

RecognizedTypes ==
    {"he3_tube", "boron_lined", "scintillator", "fission_chamber", "activation_foil"}

\* C1: anomaly_scan never raises; it returns a list after any sequence of
\* calls, also when a detector with a reading has the baseline 0 it was
\* registered with.
C1_AnomalyScanNeverRaises ==
    ret.op = "anomaly_scan" => ret.raised = "none"

\* C2: the alert flag of a reading is cps > the detector's threshold at the
\* moment record_reading inserts it, and no later step changes the alert flag
\* of a stored reading.
C2_AlertFixedAtInsertion ==
    [][ /\ Len(readings') >= Len(readings)
        /\ \A i \in 1..Len(readings) :
              readings'[i].alert_triggered = readings[i].alert_triggered
        /\ \A i \in (Len(readings) + 1)..Len(readings') :
              /\ readings'[i].detector_id \in DetectorIds
              /\ readings'[i].alert_triggered =
                    (readings'[i].cps >
                       detectors[DetectorIndex(readings'[i].detector_id)].alert_threshold)
      ]_vars

\* A stored reading whose alert flag differs from what the threshold now in
\* force would give: the threshold was changed after the reading was stored.
C2_Witness ==
    /\ ret.op = "set_threshold"
    /\ \E i \in 1..Len(readings) :
          /\ readings[i].detector_id \in DetectorIds
          /\ readings[i].alert_triggered #
                (readings[i].cps >
                   detectors[DetectorIndex(readings[i].detector_id)].alert_threshold)

\* C3: register fails with ValidationError and adds no detector when name,
\* location or type is empty or the type is not recognized, so that every
\* stored detector has a recognized type.
C3_RegisterValidates ==
    /\ ( /\ ret.op = "register_detector"
         /\ \/ ret.args[1] = ""
            \/ ret.args[2] = ""
            \/ ret.args[3] \notin RecognizedTypes )
       => ret.raised = "ValidationError"
    /\ \A i \in 1..Len(detectors) : detectors[i].type \in RecognizedTypes

\* C4: record_reading with an identifier that is not registered fails (the
\* code's exception for the not-found case is ValueError) and leaves both
\* tables unchanged; every stored reading refers to a registered detector.
C4_UnknownDetectorRejected ==
    [][ /\ (IsCall("record_reading") /\ ret'.args[1] \notin DetectorIds)
            => /\ ret'.raised = "ValueError"
               /\ readings' = readings
               /\ detectors' = detectors
        /\ \A i \in 1..Len(readings') : readings'[i].detector_id \in IdsOf(detectors')
      ]_vars

\* record_reading has failed for an unregistered identifier while the store
\* holds a detector and a reading.
C4_Witness ==
    /\ ret.op = "record_reading"
    /\ ret.raised = "ValueError"
    /\ ret.args[1] \notin DetectorIds
    /\ detectors # <<>>
    /\ readings # <<>>

\* C5 as stated: every stored baseline and alert threshold is non-negative,
\* whatever was passed to set_threshold and record_reading.
C5_NonNegative ==
    \A i \in 1..Len(detectors) :
        /\ detectors[i].baseline_cps[1] >= 0
        /\ detectors[i].alert_threshold >= 0

\* C5, amended: a stored baseline is negative only if a negative cps was
\* recorded for that detector, and a stored threshold becomes negative only in
\* a set_threshold call for that detector with a negative alert_cps.
C5_NonNegativeUnlessNegativeInput ==
    [][ \A j \in 1..Len(detectors') :
          LET d == detectors'[j]
          IN  /\ d.baseline_cps[1] < 0
                   => \E i \in 1..Len(readings') :
                         /\ readings'[i].detector_id = d.id
                         /\ readings'[i].cps < 0
              /\ d.alert_threshold < 0
                   => \/ /\ j <= Len(detectors)
                         /\ detectors[j].id = d.id
                         /\ detectors[j].alert_threshold < 0
                      \/ /\ IsCall("set_threshold")
                         /\ ret'.args = <<d.id, d.alert_threshold>>
      ]_vars

\* A detector calibrated from non-negative readings only, whose threshold was
\* set to a non-negative value.
C5_Witness ==
    \E j \in 1..Len(detectors) :
        /\ detectors[j].baseline_cps[1] > 0
        /\ detectors[j].alert_threshold \in ThresholdValues
        /\ detectors[j].alert_threshold >= 0
        /\ \A i \in RowsOf(detectors[j].id) : readings[i].cps >= 0

\* C6: calibrate with no reading of the detector in the trailing 24 hours
\* returns 0.0 and leaves baseline and last_calibration as they were; with
\* such readings it returns the arithmetic mean of their cps, and the stored
\* baseline is that value afterwards.
C6_Calibrate ==
    [][ IsCall("calibrate") =>
          LET detector_id == ret'.args[1]
              W == Trailing24h(detector_id)
          IN  /\ ret'.raised = "none"
              /\ IF W = {}
                 THEN /\ ret'.value = <<0, 1>>
                      /\ detectors' = detectors
                 ELSE /\ IsMeanOf(ret'.value, W)
                      /\ \E j \in 1..Len(detectors') :
                            /\ detectors'[j].id = detector_id
                            /\ detectors'[j].baseline_cps = ret'.value
      ]_vars

\* calibrate has returned a mean that leaves out a reading of the detector
\* older than 24 hours.
C6_Witness ==
    /\ ret.op = "calibrate"
    /\ ret.value # <<0, 1>>
    /\ \E j \in 1..Len(detectors) :
          /\ detectors[j].id = ret.args[1]
          /\ detectors[j].baseline_cps = ret.value
    /\ \E i \in RowsOf(ret.args[1]) :
          /\ readings[i].cps * ret.value[2] # ret.value[1]
          /\ ~IsMeanOf(ret.value, RowsOf(ret.args[1]))

\* C7: fleet_status returns exactly one record for each registered detector
\* with a stored reading, carrying cps, dose and timestamp of a most recent
\* reading of it, and no record for a detector without readings.
C7_FleetStatus ==
    ret.op = "fleet_status" =>
        /\ ret.raised = "none"
        /\ \A k \in 1..Len(ret.value) :
              /\ ret.value[k].id \in DetectorIds
              /\ RowsOf(ret.value[k].id) # {}
              /\ \E i \in MostRecent(ret.value[k].id) :
                    /\ ret.value[k].cps = readings[i].cps
                    /\ ret.value[k].dose_usv_h = readings[i].dose_usv_h
                    /\ ret.value[k].timestamp = readings[i].timestamp
        /\ \A id \in DetectorIds :
              RowsOf(id) # {} =>
                 Cardinality({ k \in 1..Len(ret.value) : ret.value[k].id = id }) = 1

\* fleet_status has answered for a detector with two readings taken at
\* different times and different cps.
C7_Witness ==
    /\ ret.op = "fleet_status"
    /\ Len(ret.value) = 1
    /\ \E i, j \in RowsOf(ret.value[1].id) :
          /\ readings[i].timestamp # readings[j].timestamp
          /\ readings[i].cps # readings[j].cps

\* C8: anomaly_scan returns an entry for a detector exactly if the detector
\* has a reading and the cps of its latest reading is greater than 3 times its
\* stored baseline; the entry carries that baseline and that cps.
C8_AnomalyScan ==
    ret.op = "anomaly_scan" =>
        /\ ret.raised = "none"
        /\ \A k \in 1..Len(ret.value) :
              \E j \in 1..Len(detectors) :
                 /\ detectors[j].id = ret.value[k].detector_id
                 /\ ret.value[k].baseline_cps = detectors[j].baseline_cps
                 /\ \E i \in MostRecent(detectors[j].id) :
                       /\ ret.value[k].current_cps = readings[i].cps
                       /\ readings[i].cps * detectors[j].baseline_cps[2]
                             > 3 * detectors[j].baseline_cps[1]
        /\ \A j \in 1..Len(detectors) :
              ( /\ RowsOf(detectors[j].id) # {}
                /\ \A i \in MostRecent(detectors[j].id) :
                      readings[i].cps * detectors[j].baseline_cps[2]
                         > 3 * detectors[j].baseline_cps[1] )
              => \E k \in 1..Len(ret.value) :
                    ret.value[k].detector_id = detectors[j].id

\* C9: every stored reading has dose = cps * factor(T) for the type T of its
\* detector, with the factors of the specification's table and 0.005 for any
\* other type; record_reading returns the reading it stores.
C9_Dose ==
    /\ \A i \in 1..Len(readings) :
          \E j \in 1..Len(detectors) :
             /\ detectors[j].id = readings[i].detector_id
             /\ readings[i].dose_usv_h = readings[i].cps * SpecFactor(detectors[j].type)
    /\ (ret.op = "record_reading" /\ ret.raised = "none")
          => /\ readings # <<>>
             /\ ret.value = readings[Len(readings)]
             /\ ret.value.detector_id = ret.args[1]
             /\ ret.value.cps = ret.args[2]

\* Readings are stored for a detector of a type outside the table and for a
\* detector of a type in it.
C9_Witness ==
    /\ ret.op = "record_reading"
    /\ \E i, k \in 1..Len(readings) :
          /\ readings[i].cps # 0
          /\ readings[k].cps # 0
          /\ \E j, l \in 1..Len(detectors) :
                /\ detectors[j].id = readings[i].detector_id
                /\ detectors[j].type \notin RecognizedTypes
                /\ detectors[l].id = readings[k].detector_id
                /\ detectors[l].type \in RecognizedTypes

\* C10: no step removes or renames a detector; a detector's baseline changes
\* only in a calibrate call and its threshold only in a set_threshold call.
C10_Frame ==
    [][ \A j \in 1..Len(detectors) :
          /\ j <= Len(detectors')
          /\ detectors'[j].id = detectors[j].id
          /\ detectors'[j].baseline_cps # detectors[j].baseline_cps
                => IsCall("calibrate")
          /\ detectors'[j].alert_threshold # detectors[j].alert_threshold
                => IsCall("set_threshold")
      ]_vars

\* A detector whose baseline and threshold have both been changed.
C10_Witness ==
    \E j \in 1..Len(detectors) :
        /\ detectors[j].baseline_cps # <<0, 1>>
        /\ detectors[j].alert_threshold # 100

====
